---- MODULE Spec2Model ----
(***************************************************************************)
(* A model of uniland's in-memory keyword index (uniland/utils/search.py)  *)
(* and of the one transaction that spans the index and the persistent      *)
(* store (uniland/db/submission_methods.py).                               *)
(*                                                                         *)
(* A Python str is a sequence of characters; a character is the name of    *)
(* its code point.  A Record is an object: a reference into heap.  The     *)
(* keyword index maps a token to a set of Record objects, and two Records  *)
(* are the same element of a set only when they are the same object        *)
(* (Record defines neither __eq__ nor __hash__).                           *)
(***************************************************************************)
EXTENDS Integers, Sequences, FiniteSets, TLC

VARIABLES
  subs, heap, keywords,   \* the SearchEngine: id -> Record, the Records, token -> set of Records
  last,                   \* the engine call just made
  pc, arg,                \* each task's place in increase_search_times, and the id it passed
  lock,                   \* SUBMISSION_INSERTION_LOCK's owner, 0 when free
  db, pending,            \* search_times as committed, and SESSION's uncommitted additions
  calls,                  \* the calls each task has made
  obs,                    \* what a task outside the call last read
  users, seen,            \* the UserCache: id -> UserRecord, and the cache call just made
  frame,                  \* each task's local variables inside an engine call
  doc, did                \* a Document of the tables, and the call just made on it

vars ==
  <<subs, heap, keywords, last, pc, arg, lock, db, pending, calls, obs, users, seen, frame,
    doc, did>>
txvars == <<pc, arg, lock, db, pending, calls, obs>>
cachevars == <<users, seen>>
docvars == <<doc, did>>

\* ------------------------------------------------------------------ bounds

\* Record objects alive at once, and |likes| as far as increase_likes /
\* decrease_likes are followed.
MaxRefs == 2
MaxLikes == 2
\* Calls of increase_search_times per task.
MaxCalls == 2
\* Characters of a text handed to the normalizer.
MaxLen == 3

Ids == {1, 2}
Refs == 1..MaxRefs

\* The tasks, the ids of the submissions table's rows, the ids tasks pass.
Tasks == {1, 2}
DbIds == {1, 2}
TxIds == {1, 2, 3}

\* ------------------------------------------------------------- characters

SP == "SPACE"
Whitespace == {SP}

\* What heap holds where no object lives (no Record has id 0).
NoRecord == [id |-> 0, search_text |-> <<>>, type |-> <<>>, likes |-> 0]

\* SearchEngine.alts, in the order of the dict literal.
alts ==
  << <<"ARABIC_YEH", "FARSI_YEH">>,
     <<"ARABIC_KAF", "KEHEH">>,
     <<"TEH_MARBUTA", "HEH">>,
     <<"ALEF_HAMZA_ABOVE", "ALEF">>,
     <<"ALEF_HAMZA_BELOW", "ALEF">>,
     <<"YEH_HAMZA_ABOVE", "FARSI_YEH">> >>

\* str.replace(key, value) for a one-character key.
Replace(text, key, value) ==
  [i \in 1..Len(text) |-> IF text[i] = key THEN value ELSE text[i]]

RECURSIVE ReplaceAlts(_, _)
ReplaceAlts(text, i) ==
  IF i > Len(alts) THEN text
  ELSE ReplaceAlts(Replace(text, alts[i][1], alts[i][2]), i + 1)

RECURSIVE LStrip(_)
LStrip(text) ==
  IF text # <<>> /\ Head(text) \in Whitespace THEN LStrip(Tail(text)) ELSE text

RECURSIVE RStrip(_)
RStrip(text) ==
  IF text # <<>> /\ text[Len(text)] \in Whitespace
  THEN RStrip(SubSeq(text, 1, Len(text) - 1))
  ELSE text

\* str.strip()
Strip(text) == RStrip(LStrip(text))

\* str.split(): the maximal runs of non-whitespace characters, in order.
RECURSIVE SplitFrom(_, _, _)
SplitFrom(text, word, acc) ==
  IF text = <<>>
  THEN IF word = <<>> THEN acc ELSE Append(acc, word)
  ELSE IF Head(text) \in Whitespace
       THEN SplitFrom(Tail(text), <<>>, IF word = <<>> THEN acc ELSE Append(acc, word))
       ELSE SplitFrom(Tail(text), Append(word, Head(text)), acc)

Split(text) == SplitFrom(text, <<>>, <<>>)

\* __clean_text, were only the leading whitespace trimmed.
CleanTextLeft(text) == LStrip(ReplaceAlts(text, 1))

\* SearchEngine.__clean_text
CleanText(text) == Strip(ReplaceAlts(text, 1))

\* ------------------------------------------------------------------ engine
\* An engine value E is [subs, heap, keywords]: subs maps an id to its Record
\* object, heap holds each object's fields, keywords maps a token to a set of
\* Record objects.

Engine(s, h, k) == [subs |-> s, heap |-> h, keywords |-> k]

\* Record.__init__
Record(id, search_text, type, likes) ==
  [id |-> id, search_text |-> search_text, type |-> type, likes |-> likes]

\* The objects something still refers to: subs' values and the token sets' members.
Referenced(E) ==
  {E.subs[i] : i \in DOMAIN E.subs} \cup UNION {E.keywords[w] : w \in DOMAIN E.keywords}

\* An object nothing refers to is reclaimed.
Collect(E) ==
  [E EXCEPT !.heap = [r \in Refs |-> IF r \in Referenced(E) THEN E.heap[r] ELSE NoRecord]]

FreeRefs(E) == {r \in Refs : E.heap[r] = NoRecord}

\* Record(...) allocates an object distinct from every live one.
NewRef(E) == CHOOSE r \in FreeRefs(E) : \A s \in FreeRefs(E) : r <= s

\* index_record's loop: for word in search_text.split()
RECURSIVE AddWords(_, _, _)
AddWords(kw, words, r) ==
  IF words = <<>> THEN kw
  ELSE LET word == Head(words)
           kw0 == IF word \notin DOMAIN kw THEN (word :> {}) @@ kw ELSE kw
       IN AddWords([kw0 EXCEPT ![word] = @ \cup {r}], Tail(words), r)

\* SearchEngine.index_record
IndexRecord(E, id, search_text, sub_type, likes) ==
  LET text == CleanText(search_text)
      r == NewRef(E)
      record == Record(id, text, Strip(sub_type), likes)
  IN Collect(Engine((id :> r) @@ E.subs,
                    [E.heap EXCEPT ![r] = record],
                    AddWords(E.keywords, Split(text), r)))

\* dict without one key (del d[k], d.pop(k))
Without(f, k) == [x \in DOMAIN f \ {k} |-> f[x]]

\* remove_record's loop body, were a token kept once its set is empty.
PruneNever(kw, word) == kw

\* if len(self.keywords[word]) == 0: del self.keywords[word]
Prune(kw, word) == IF Cardinality(kw[word]) = 0 THEN Without(kw, word) ELSE kw

\* remove_record's loop.  set.remove raises KeyError when the element is absent,
\* and the loop stops there.
RECURSIVE RemoveWords(_, _, _)
RemoveWords(kw, words, r) ==
  IF words = <<>> THEN [keywords |-> kw, err |-> "none"]
  ELSE LET word == Head(words) IN
       IF word \in DOMAIN kw
       THEN IF r \notin kw[word]
            THEN [keywords |-> kw, err |-> "KeyError"]
            ELSE RemoveWords(Prune([kw EXCEPT ![word] = @ \ {r}], word), Tail(words), r)
       ELSE RemoveWords(kw, Tail(words), r)

\* SearchEngine.remove_record: the engine afterwards, the error raised and the
\* Record returned.
RemoveRecord(E, id) ==
  IF id \notin DOMAIN E.subs
  THEN [E |-> E, err |-> "KeyError", record |-> NoRecord]
  ELSE LET r == E.subs[id]
           record == E.heap[r]
           rem == RemoveWords(E.keywords, Split(record.search_text), r)
       IN [E |-> Collect(Engine(Without(E.subs, id), E.heap, rem.keywords)),
           err |-> rem.err,
           record |-> record]

\* An optional argument: given with a value, or left to its default.
Given(v) == [given |-> TRUE, val |-> v]
NotGivenText == [given |-> FALSE, val |-> <<>>]
NotGivenLikes == [given |-> FALSE, val |-> 0]

\* The defaults of update_record's signature: None, None, -1.
NoneText == <<"None">>
DefaultText(a) == IF a.given THEN a.val ELSE NoneText
DefaultLikes(a) == IF a.given THEN a.val ELSE -1

\* update_record's three assignments to the removed record.
MergeRecord(record, search_text, sub_type, likes) ==
  Record(record.id,
         IF search_text = NoneText THEN record.search_text ELSE search_text,
         IF sub_type = NoneText THEN record.type ELSE sub_type,
         IF likes = -1 THEN record.likes ELSE likes)

\* SearchEngine.update_record
UpdateRecord(E, id, search_text, sub_type, likes) ==
  LET rem == RemoveRecord(E, id) IN
  IF rem.err # "none" THEN [E |-> rem.E, err |-> rem.err]
  ELSE LET record == MergeRecord(rem.record, search_text, sub_type, likes) IN
       [E |-> IndexRecord(rem.E, record.id, record.search_text, record.type, record.likes),
        err |-> "none"]

\* record.likes += delta, were an id that is not indexed passed over in silence.
AdjustLikesQuiet(E, id, delta) ==
  IF id \notin DOMAIN E.subs
  THEN [E |-> E, err |-> "none"]
  ELSE [E |-> [E EXCEPT !.heap[E.subs[id]].likes = @ + delta], err |-> "none"]

\* increase_likes / decrease_likes: record.likes += delta
AdjustLikes(E, id, delta) ==
  IF id \notin DOMAIN E.subs
  THEN [E |-> E, err |-> "KeyError"]
  ELSE [E |-> [E EXCEPT !.heap[E.subs[id]].likes = @ + delta], err |-> "none"]

\* SearchEngine.increase_likes
IncreaseLikes(E, id) == AdjustLikes(E, id, 1)

\* decrease_likes, were likes kept from falling below zero.
DecreaseLikesFloor(E, id) ==
  IF id \in DOMAIN E.subs /\ E.heap[E.subs[id]].likes <= 0
  THEN [E |-> E, err |-> "none"]
  ELSE AdjustLikes(E, id, -1)

\* SearchEngine.decrease_likes
DecreaseLikes(E, id) == AdjustLikes(E, id, -1)

\* search's loop.  result starts as a new empty set; the first token found makes
\* it the index's own set for that token (alias names the token), and each later
\* one replaces it by a new set, result.intersection(...).  A token that is not
\* a key is passed over.
RECURSIVE SearchWords(_, _, _, _, _)
SearchWords(kw, words, result, alias, first_flag) ==
  IF words = <<>> THEN [keywords |-> kw, result |-> result]
  ELSE LET word == Head(words) IN
       IF word \in DOMAIN kw
       THEN IF ~first_flag
            THEN SearchWords(kw, Tail(words), result \cap kw[word], <<>>, first_flag)
            ELSE SearchWords(kw, Tail(words), kw[word], word, FALSE)
       ELSE SearchWords(kw, Tail(words), result, alias, first_flag)

\* The orders in which a set may be iterated.
Orders(S) ==
  {o \in [1..Cardinality(S) -> S] : \A i, j \in 1..Cardinality(S) : i # j => o[i] # o[j]}

\* One step of a stable sort by likes, descending: x goes behind every element
\* whose key is not smaller.
RECURSIVE InsertByLikes(_, _, _)
InsertByLikes(h, sorted, x) ==
  IF sorted = <<>> THEN <<x>>
  ELSE IF h[Head(sorted)].likes >= h[x].likes
       THEN <<Head(sorted)>> \o InsertByLikes(h, Tail(sorted), x)
       ELSE <<x>> \o sorted

\* The sort's passes over the elements in iteration order.
RECURSIVE SortedByLikes(_, _, _)
SortedByLikes(h, order, sorted) ==
  IF order = <<>> THEN sorted
  ELSE SortedByLikes(h, Tail(order), InsertByLikes(h, sorted, Head(order)))

\* sorted(result, key=lambda x: x.likes), without reverse=True.
SortedAscending(h, order) ==
  LET desc == SortedByLikes(h, order, <<>>) IN
  [i \in 1..Len(desc) |-> desc[Len(desc) + 1 - i]]

\* sorted(result, key=lambda x: x.likes, reverse=True)
Sorted(h, order) == SortedByLikes(h, order, <<>>)

\* search, were the query split as it is given.
SearchSetRaw(E, search_text) == SearchWords(E.keywords, Split(search_text), {}, <<>>, TRUE)

\* search, were result.intersection_update(...) used: the first token's own set
\* in the index is narrowed to the result.
SearchSetInPlace(E, search_text) ==
  LET words == Split(CleanText(search_text))
      found == SearchWords(E.keywords, words, {}, <<>>, TRUE)
      hits == {i \in 1..Len(words) : words[i] \in DOMAIN E.keywords}
  IN IF hits = {} THEN found
     ELSE [keywords |-> [E.keywords EXCEPT ![words[CHOOSE i \in hits : \A j \in hits : i <= j]]
                                             = found.result],
           result |-> found.result]

\* search, were a query without tokens to match every record.
SearchSetMatchAll(E, search_text) ==
  IF Split(CleanText(search_text)) = <<>>
  THEN [keywords |-> E.keywords, result |-> {E.subs[i] : i \in DOMAIN E.subs}]
  ELSE SearchWords(E.keywords, Split(CleanText(search_text)), {}, <<>>, TRUE)

\* SearchEngine.search up to the sort: the set found and the index afterwards.
SearchSet(E, search_text) ==
  SearchWords(E.keywords, Split(CleanText(search_text)), {}, <<>>, TRUE)

\* -------------------------------------------------------------- user cache
\* uniland/utils/usercache.py.  A permission, as a caller passes it and as a
\* UserRecord holds it, is one of the names or a number.

Name(n) == [kind |-> "name", name |-> n, ord |-> 0]
Ordinal(k) == [kind |-> "ord", name |-> "", ord |-> k]

\* UserRecord.permission_values
permission_values == ("Admin" :> 3) @@ ("Editor" :> 2) @@ ("Ordinary" :> 1)

\* str.lower(): the letters that have a lower-case form, and theirs.
lower_of == ("S" :> "s") @@ ("T" :> "t")

Lower(text) ==
  [i \in 1..Len(text) |-> IF text[i] \in DOMAIN lower_of THEN lower_of[text[i]] ELSE text[i]]

\* last_step.strip().lower()
NormalStep(step) == Lower(Strip(step))

\* update_permission, were the argument kept as it is given.
UpdatePermissionAsGiven(permission) == permission

\* UserRecord.update_permission: the value self.permission is given.
UpdatePermission(permission) ==
  IF permission.kind = "name" /\ permission.name \in DOMAIN permission_values
  THEN Ordinal(permission_values[permission.name])
  ELSE permission

\* __init__, were last_step kept as it is given.
UserRecordRawStep(user_id, permission, last_step) ==
  [user_id |-> user_id, permission |-> UpdatePermission(permission), last_step |-> last_step]

\* UserRecord.__init__
UserRecord(user_id, permission, last_step) ==
  [user_id |-> user_id,
   permission |-> UpdatePermission(permission),
   last_step |-> IF last_step # <<>> THEN NormalStep(last_step) ELSE <<>>]

\* What remove_user returns for an id that is not cached (None).
NoUser == [user_id |-> 0, permission |-> Ordinal(0), last_step |-> <<>>]

\* has_permission, were the upper bound exclusive.
RecordHasPermissionBelowMax(user, min_permission, max_permission) ==
  IF user.permission.kind # "ord"
  THEN [ret |-> FALSE, err |-> "TypeError"]
  ELSE [ret |-> user.permission.ord >= min_permission /\ user.permission.ord < max_permission,
        err |-> "none"]

\* UserRecord.has_permission; a str does not compare with an int.
RecordHasPermission(user, min_permission, max_permission) ==
  IF user.permission.kind # "ord"
  THEN [ret |-> FALSE, err |-> "TypeError"]
  ELSE [ret |-> user.permission.ord >= min_permission /\ user.permission.ord <= max_permission,
        err |-> "none"]

\* The default lower bound of has_permission's and access_level's signatures.
DefaultMin(a) == IF a.given THEN a.val ELSE 1

\* The default upper bound, were it 2.
DefaultMaxEditor(a) == IF a.given THEN a.val ELSE 2

\* The default upper bound of has_permission's and access_level's signatures.
DefaultMax(a) == IF a.given THEN a.val ELSE 3

\* UserCache.add_user
AddUser(U, user_id, permission, last_step) ==
  (user_id :> UserRecord(user_id, permission, last_step)) @@ U

\* update_user_permission, were the record built anew with an empty step.
UpdateUserPermissionResettingStep(U, user_id, permission) ==
  IF user_id \notin DOMAIN U THEN U
  ELSE [U EXCEPT ![user_id] = UserRecord(user_id, permission, <<>>)]

\* UserCache.update_user_permission
UpdateUserPermission(U, user_id, permission) ==
  IF user_id \notin DOMAIN U THEN U
  ELSE [U EXCEPT ![user_id].permission = UpdatePermission(permission)]

\* update_user_step, were an id that is not cached given a record.
UpdateUserStepCreating(U, user_id, last_step) ==
  IF user_id \notin DOMAIN U
  THEN (user_id :> [user_id |-> user_id, permission |-> Ordinal(1),
                    last_step |-> NormalStep(last_step)]) @@ U
  ELSE [U EXCEPT ![user_id].last_step = NormalStep(last_step)]

\* UserCache.update_user_step
UpdateUserStep(U, user_id, last_step) ==
  IF user_id \notin DOMAIN U THEN U
  ELSE [U EXCEPT ![user_id].last_step = NormalStep(last_step)]

\* remove_user, were the entry deleted without the membership test.
RemoveUserStrict(U, user_id) ==
  IF user_id \notin DOMAIN U
  THEN [users |-> U, ret |-> NoUser, err |-> "KeyError"]
  ELSE [users |-> Without(U, user_id), ret |-> U[user_id], err |-> "none"]

\* UserCache.remove_user: the cache afterwards and the record returned.
RemoveUser(U, user_id) ==
  IF user_id \notin DOMAIN U
  THEN [users |-> U, ret |-> NoUser, err |-> "none"]
  ELSE [users |-> Without(U, user_id), ret |-> U[user_id], err |-> "none"]

\* UserCache.match_step
MatchStep(U, user_id, step) ==
  IF user_id \notin DOMAIN U THEN FALSE
  ELSE U[user_id].last_step = NormalStep(step)

\* UserCache.has_permission
HasPermission(U, user_id, min_permission, max_permission) ==
  IF user_id \notin DOMAIN U THEN [ret |-> FALSE, err |-> "none"]
  ELSE RecordHasPermission(U[user_id], min_permission, max_permission)

\* filters.access_level(min, max), applied to a message from from_user
AccessLevel(U, min, max, from_user) == HasPermission(U, from_user, min, max)

\* filters.user_step(step), applied to a message from from_user
UserStep(U, step, from_user) == MatchStep(U, from_user, step)

\* ------------------------------------------------------------------ inputs

\* Two words; the first is spelt with the Arabic yeh that alts folds.
WordYeh == <<"ARABIC_YEH">>
WordKaf == <<"KEHEH">>

RECURSIVE Join(_)
Join(ws) ==
  IF ws = <<>> THEN <<>>
  ELSE IF Len(ws) = 1 THEN Head(ws)
  ELSE Head(ws) \o <<SP>> \o Join(Tail(ws))

Padded(text) == <<SP>> \o text \o <<SP>>

\* Texts to index: no token, one token (padded), another token, a repeated
\* token followed by a second one.
IndexTexts ==
  {<<SP>>, Padded(WordYeh), WordKaf, Join(<<WordYeh, WordYeh, WordKaf>>)}

\* Queries: no token, one token (padded, to be folded), another token, two
\* tokens (the first word in its folded spelling).
QueryTexts ==
  {<<SP>>, Padded(WordYeh), WordKaf, Join(<<WordKaf, <<"FARSI_YEH">>>>)}

IndexTypes == {<<"D", SP>>}
IndexLikes == {0}

RankTexts == {WordKaf, Join(<<WordYeh, WordKaf>>)}
RankQueries == {<<SP>>, WordKaf, Join(<<WordYeh, WordKaf>>)}
RankTypes == {<<"D">>, <<SP, "M">>}
RankUpdateTypes == {<<SP, "M">>}
RankUpdateLikes == {-1, 1}

\* The cache's callers: every permission by name and by number, steps with
\* and without capitals and surrounding blanks, and every pair of bounds.
Permissions ==
  {Name("Ordinary"), Name("Editor"), Name("Admin"), Ordinal(1), Ordinal(2), Ordinal(3)}
StepTexts == {<<>>, <<SP, "S", SP>>, <<"s", "T">>}
StepQueries == {<<SP>>, <<"s">>, <<"S", "t", SP>>}
PermBounds == {NotGivenLikes} \cup {Given(n) : n \in 1..3}

\* ----------------------------------------------------------------- actions
\* last records the call just made: its name, arguments, whether its id was
\* indexed, the error it raised and what it returned.

Call(op, id, text, type, likes, existed, err, ret) ==
  [op |-> op, id |-> id, text |-> text, type |-> type, likes |-> likes,
   existed |-> existed, err |-> err, ret |-> ret]

E0 == Engine(subs, heap, keywords)

Install(E) ==
  /\ subs' = E.subs
  /\ heap' = E.heap
  /\ keywords' = E.keywords

NoObs == [id |-> 0, score |-> 0, times |-> 0]

InitTx ==
  /\ pc = [t \in Tasks |-> "idle"]
  /\ arg = [t \in Tasks |-> 0]
  /\ lock = 0
  /\ db = [i \in DbIds |-> 0]
  /\ pending = [i \in DbIds |-> 0]
  /\ calls = [t \in Tasks |-> 0]
  /\ obs = NoObs

EmptyEngine == Engine(<<>>, [r \in Refs |-> NoRecord], <<>>)

\* seen records the cache call just made: its name, arguments, whether its id
\* was cached, what it returned (a boolean, or remove_user's record) and the
\* error it raised.
Seen(op, id, permission, step, min, max, existed, ret, user, err) ==
  [op |-> op, id |-> id, permission |-> permission, step |-> step, min |-> min, max |-> max,
   existed |-> existed, ret |-> ret, user |-> user, err |-> err]

\* ------------------------------------------------------------ the tables
\* uniland.utils.enums.UserLevel: the levels and their values.
UserLevel == ("Ordinary" :> 1) @@ ("Editor" :> 2) @@ ("Admin" :> 3)

\* uniland.utils.enums.DocType: members with a string value each.
DocType ==
  {[name |-> "Pamphlet", value |-> <<"JEEM", "ZAIN", "WAW", "HEH">>],
   [name |-> "Book", value |-> <<"KEHEH", "TEH", "ALEF", "BEH">>]}

\* User.__init__, and None where a User is expected.
User(user_id) == [user_id |-> user_id, access_level |-> "Ordinary"]
NoDbUser == [user_id |-> 0, access_level |-> "None"]

\* The text a column holds when nothing was given for it.
Unset == <<"NOON", "ALEF", "MEEM", "SHEEN", "KHAH", "SAD">>

\* The words update_search_text writes before a field.
LabelCourse == <<"DAL", "REH", "SEEN">>
LabelProfessor == <<"ALEF", "SEEN", "TEH", "ALEF", "DAL">>
LabelWriter == <<"NOON", "WAW", "FARSI_YEH", "SEEN", "NOON", "DAL", "HEH">>
LabelYear == <<"SEEN", "ALEF", "LAM">>
LabelFaculty == <<"DAL", "ALEF", "NOON", "SHEEN", "KEHEH", "DAL", "HEH">>
LabelUniversity == <<"DAL", "ALEF", "NOON", "SHEEN", "GAF", "ALEF", "HEH">>

\* An int as an f-string writes it.
DigitChars == <<"0", "1", "2", "3", "4", "5", "6", "7", "8", "9">>

RECURSIVE Str(_)
Str(n) ==
  IF n < 0 THEN <<"-">> \o Str(-n)
  ELSE IF n < 10 THEN <<DigitChars[n + 1]>>
  ELSE Str(n \div 10) \o <<DigitChars[(n % 10) + 1]>>

\* f" label {value}"
Labelled(label, value) == <<SP>> \o label \o <<SP>> \o value

\* No Document constructed yet.
NoDocument ==
  [exists |-> FALSE, file_type |-> [name |-> "None", value |-> <<>>], course |-> <<>>,
   professor |-> <<>>, writer |-> <<>>, semester_year |-> 0, faculty |-> <<>>,
   university |-> <<>>, is_confirmed |-> FALSE, admin |-> NoDbUser,
   search_text |-> NotGivenText]

\* Document.__init__: no admin and no search_text yet.
Document(is_confirmed, university, faculty, file_type, course, professor, writer, semester_year) ==
  [exists |-> TRUE, file_type |-> file_type, course |-> course, professor |-> professor,
   writer |-> writer, semester_year |-> semester_year, faculty |-> faculty,
   university |-> university, is_confirmed |-> is_confirmed, admin |-> NoDbUser,
   search_text |-> NotGivenText]

\* Media.update_search_text's order on a Document: the faculty before the year.
UpdateSearchTextFacultyFirst(d) ==
  LET t0 == d.file_type.value
      t1 == IF d.course # Unset THEN t0 \o Labelled(LabelCourse, d.course) ELSE t0
      t2 == IF d.professor # Unset THEN t1 \o Labelled(LabelProfessor, d.professor) ELSE t1
      t3 == IF d.writer # Unset THEN t2 \o Labelled(LabelWriter, d.writer) ELSE t2
      t4 == IF d.faculty # Unset THEN t3 \o Labelled(LabelFaculty, d.faculty) ELSE t3
      t5 == IF d.semester_year # 0 THEN t4 \o Labelled(LabelYear, Str(d.semester_year))
            ELSE t4
      t6 == IF d.university # Unset THEN t5 \o Labelled(LabelUniversity, d.university)
            ELSE t5
  IN  [d EXCEPT !.search_text = Given(t6)]

\* Document.update_search_text
UpdateSearchText(d) ==
  LET t0 == d.file_type.value
      t1 == IF d.course # Unset THEN t0 \o Labelled(LabelCourse, d.course) ELSE t0
      t2 == IF d.professor # Unset THEN t1 \o Labelled(LabelProfessor, d.professor) ELSE t1
      t3 == IF d.writer # Unset THEN t2 \o Labelled(LabelWriter, d.writer) ELSE t2
      t4 == IF d.semester_year # 0 THEN t3 \o Labelled(LabelYear, Str(d.semester_year))
            ELSE t3
      t5 == IF d.faculty # Unset THEN t4 \o Labelled(LabelFaculty, d.faculty) ELSE t4
      t6 == IF d.university # Unset THEN t5 \o Labelled(LabelUniversity, d.university)
            ELSE t5
  IN  [d EXCEPT !.search_text = Given(t6)]

\* confirm, were every User allowed to confirm.
ConfirmAnyUser(d, user) ==
  IF user = NoDbUser
  THEN [doc |-> d, err |-> "RuntimeError"]
  ELSE [doc |-> UpdateSearchText([d EXCEPT !.admin = user, !.is_confirmed = TRUE]),
        err |-> "none"]

\* Submission.confirm on a Document
Confirm(d, user) ==
  IF user = NoDbUser
  THEN [doc |-> d, err |-> "RuntimeError"]
  ELSE IF UserLevel[user.access_level] < 2
  THEN [doc |-> d, err |-> "RuntimeError"]
  ELSE [doc |-> UpdateSearchText([d EXCEPT !.admin = user, !.is_confirmed = TRUE]),
        err |-> "none"]

\* A call on the Document: its name, the user passed, how it ended.
DocCall(op, user, err) == [op |-> op, user |-> user, err |-> err]

\* The texts a field takes: unset, a letter, and the unset text with a blank
\* after it; the years; the Users of every level, and None.
FieldTexts == {Unset, <<"ALEF">>, Unset \o <<SP>>}
Years == {0, 7, 1402}
DbUsers == {[User(i) EXCEPT !.access_level = l] : i \in Ids, l \in DOMAIN UserLevel}

InitDoc ==
  /\ doc = NoDocument
  /\ did = DocCall("init", NoDbUser, "none")

\* UserCache.__init__
InitCache ==
  /\ users = <<>>
  /\ seen = Seen("init", 0, Ordinal(0), <<>>, NotGivenLikes, NotGivenLikes, FALSE, FALSE,
                 NoUser, "none")

\* A task that is in no engine call: the call's name and arguments, its local
\* record, the words its loop has yet to take, the likes it has read, the engine
\* as it was when the call began, and the calls the task has made so far.
NoFrame ==
  [op |-> "none", id |-> 0, text |-> NotGivenText, likes |-> NotGivenLikes,
   rec |-> 0, words |-> <<>>, val |-> 0, pre |-> EmptyEngine, hist |-> <<>>]

InitFrame == frame = [t \in Tasks |-> NoFrame]

Init ==
  /\ subs = EmptyEngine.subs
  /\ heap = EmptyEngine.heap
  /\ keywords = EmptyEngine.keywords
  /\ last = Call("init", 0, NotGivenText, NotGivenText, NotGivenLikes, FALSE, "none", <<>>)
  /\ InitTx
  /\ InitCache
  /\ InitFrame
  /\ InitDoc

\* reindex: whether the caller indexes ids that are indexed already.
index_record(Texts, Types, Likes, reindex) ==
  \E id \in Ids, text \in Texts, type \in Types, likes \in Likes :
    /\ FreeRefs(E0) # {}
    /\ reindex \/ id \notin DOMAIN subs
    /\ \E E \in {IndexRecord(E0, id, text, type, likes)} : Install(E)
    /\ last' = Call("index_record", id, Given(text), NotGivenText, NotGivenLikes,
                    id \in DOMAIN subs, "none", <<>>)
    /\ UNCHANGED <<txvars, cachevars, frame, docvars>>

update_record(Texts, Types, Likes) ==
  \E id \in Ids,
     text \in {NotGivenText} \cup {Given(t) : t \in Texts},
     type \in {NotGivenText} \cup {Given(t) : t \in Types},
     likes \in {NotGivenLikes} \cup {Given(n) : n \in Likes} :
    \E upd \in {UpdateRecord(E0, id, DefaultText(text), DefaultText(type), DefaultLikes(likes))} :
    /\ Install(upd.E)
    /\ last' = Call("update_record", id, text, type, likes, id \in DOMAIN subs, upd.err, <<>>)
    /\ UNCHANGED <<txvars, cachevars, frame, docvars>>

remove_record ==
  \E id \in Ids :
    LET rem == RemoveRecord(E0, id) IN
    /\ Install(rem.E)
    /\ last' = Call("remove_record", id, NotGivenText, NotGivenText, NotGivenLikes,
                    id \in DOMAIN subs, rem.err, <<>>)
    /\ UNCHANGED <<txvars, cachevars, frame, docvars>>

increase_likes ==
  \E id \in Ids :
    LET adj == IncreaseLikes(E0, id) IN
    /\ id \in DOMAIN subs => heap[subs[id]].likes < MaxLikes
    /\ Install(adj.E)
    /\ last' = Call("increase_likes", id, NotGivenText, NotGivenText, NotGivenLikes,
                    id \in DOMAIN subs, adj.err, <<>>)
    /\ UNCHANGED <<txvars, cachevars, frame, docvars>>

decrease_likes ==
  \E id \in Ids :
    LET adj == DecreaseLikes(E0, id) IN
    /\ id \in DOMAIN subs => heap[subs[id]].likes > -MaxLikes
    /\ Install(adj.E)
    /\ last' = Call("decrease_likes", id, NotGivenText, NotGivenText, NotGivenLikes,
                    id \in DOMAIN subs, adj.err, <<>>)
    /\ UNCHANGED <<txvars, cachevars, frame, docvars>>

search(Texts) ==
  \E text \in Texts :
    LET found == SearchSet(E0, text) IN
    \E order \in Orders(found.result) :
      /\ Install(Engine(subs, heap, found.keywords))
      /\ last' = Call("search", 0, Given(text), NotGivenText, NotGivenLikes, FALSE, "none",
                      Sorted(heap, order))
      /\ UNCHANGED <<txvars, cachevars, frame, docvars>>

\* The index under texts of every shape; every record of one type, indexed
\* with no likes.
Next ==
  \/ index_record(IndexTexts, IndexTypes, IndexLikes, TRUE)
  \/ update_record(IndexTexts, {}, {})
  \/ remove_record
  \/ search(QueryTexts)

Spec == Init /\ [][Next]_vars

\* The same, every id indexed while it is not indexed.
NextFresh ==
  \/ index_record(IndexTexts, IndexTypes, IndexLikes, FALSE)
  \/ update_record(IndexTexts, {}, {})
  \/ remove_record
  \/ search(QueryTexts)

SpecFresh == Init /\ [][NextFresh]_vars

\* Ranking and merging: two texts that share a token, two types, likes of
\* either sign, every id indexed while it is not indexed.
NextRank ==
  \/ index_record(RankTexts, RankTypes, IndexLikes, FALSE)
  \/ update_record(RankTexts, RankUpdateTypes, RankUpdateLikes)
  \/ remove_record
  \/ increase_likes
  \/ decrease_likes
  \/ search(RankQueries)

SpecRank == Init /\ [][NextRank]_vars

\* ------------------------------------------------- increase_search_times
\* submission_methods.increase_search_times(id), one statement a step.  A task
\* that is not inside the call reads the engine and the table without the lock
\* (search and get_submission take none).

\* search_engine.increase_search_times(id): the engine's score adjustment.
EngineIncreaseSearchTimes(E, id) == IncreaseLikes(E, id)

Goto(t, label) == pc' = [pc EXCEPT ![t] = label]

\* increase_search_times(id) is called.
TxCall(t) ==
  \E id \in TxIds :
    /\ pc[t] = "idle"
    /\ calls[t] < MaxCalls
    /\ calls' = [calls EXCEPT ![t] = @ + 1]
    /\ arg' = [arg EXCEPT ![t] = id]
    /\ Goto(t, "acquire")
    /\ UNCHANGED <<subs, heap, keywords, last, lock, db, pending, obs, users, seen, frame, docvars>>

\* with SUBMISSION_INSERTION_LOCK:
TxAcquire(t) ==
  /\ pc[t] = "acquire"
  /\ lock = 0
  /\ lock' = t
  /\ Goto(t, "query")
  /\ UNCHANGED <<subs, heap, keywords, last, arg, db, pending, calls, obs, users, seen, frame, docvars>>

\* submission = SESSION.query(Submission).filter(Submission.id == id).first()
\* if submission:
TxQuery(t) ==
  /\ pc[t] = "query"
  /\ Goto(t, IF arg[t] \in DbIds THEN "bump" ELSE "close")
  /\ UNCHANGED <<subs, heap, keywords, last, arg, lock, db, pending, calls, obs, users, seen, frame, docvars>>

\* submission.search_times += 1
TxBump(t) ==
  /\ pc[t] = "bump"
  /\ pending' = [pending EXCEPT ![arg[t]] = @ + 1]
  /\ Goto(t, "mirror")
  /\ UNCHANGED <<subs, heap, keywords, last, arg, lock, db, calls, obs, users, seen, frame, docvars>>

\* The engine call, were its error to leave the call with the lock held.
TxMirrorLeak(t) ==
  /\ pc[t] = "mirror"
  /\ LET adj == EngineIncreaseSearchTimes(E0, arg[t]) IN
     /\ Install(adj.E)
     /\ Goto(t, IF adj.err = "none" THEN "commit" ELSE "idle")
  /\ UNCHANGED <<last, arg, lock, db, pending, calls, obs, users, seen, frame, docvars>>

\* search_engine.increase_search_times(id); an error leaves the with block.
TxMirror(t) ==
  /\ pc[t] = "mirror"
  /\ LET adj == EngineIncreaseSearchTimes(E0, arg[t]) IN
     /\ Install(adj.E)
     /\ Goto(t, IF adj.err = "none" THEN "commit" ELSE "release")
  /\ UNCHANGED <<last, arg, lock, db, pending, calls, obs, users, seen, frame, docvars>>

\* SESSION.commit()
TxCommit(t) ==
  /\ pc[t] = "commit"
  /\ db' = [i \in DbIds |-> db[i] + pending[i]]
  /\ pending' = [i \in DbIds |-> 0]
  /\ Goto(t, "close")
  /\ UNCHANGED <<subs, heap, keywords, last, arg, lock, calls, obs, users, seen, frame, docvars>>

\* SESSION.close()
TxClose(t) ==
  /\ pc[t] = "close"
  /\ pending' = [i \in DbIds |-> 0]
  /\ Goto(t, "release")
  /\ UNCHANGED <<subs, heap, keywords, last, arg, lock, db, calls, obs, users, seen, frame, docvars>>

\* SESSION.query(...) or SESSION.commit() raises: the with block is left with
\* what the session holds uncommitted.
TxStoreError(t) ==
  /\ pc[t] \in {"query", "commit"}
  /\ Goto(t, "release")
  /\ UNCHANGED <<subs, heap, keywords, last, arg, lock, db, pending, calls, obs, users, seen, frame, docvars>>

\* The with block is left, by its end or by an error.
TxRelease(t) ==
  /\ pc[t] = "release"
  /\ lock' = 0
  /\ Goto(t, "idle")
  /\ UNCHANGED <<subs, heap, keywords, last, arg, db, pending, calls, obs, users, seen, frame, docvars>>

\* The score the engine holds for an id (none while it is not indexed).
EngineScore(id) == IF id \in DOMAIN subs THEN heap[subs[id]].likes ELSE 0

\* A task that is not inside the call reads a submission's score and its
\* committed search_times.
TxObserve(t) ==
  \E id \in DbIds :
    /\ pc[t] = "idle"
    /\ obs' = [id |-> id, score |-> EngineScore(id), times |-> db[id]]
    /\ UNCHANGED <<subs, heap, keywords, last, pc, arg, lock, db, pending, calls, users, seen, frame, docvars>>

\* Submission 1 is indexed with no likes; submission 2 is a row that is not
\* indexed; no row has id 3.
InitEngineTx ==
  LET E == IndexRecord(EmptyEngine, 1, WordKaf, <<"D">>, 0) IN
  /\ subs = E.subs
  /\ heap = E.heap
  /\ keywords = E.keywords
  /\ last = Call("init", 0, NotGivenText, NotGivenText, NotGivenLikes, FALSE, "none", <<>>)
  /\ InitTx
  /\ InitCache
  /\ InitFrame
  /\ InitDoc

NextTx ==
  \E t \in Tasks :
    \/ TxCall(t)
    \/ TxAcquire(t)
    \/ TxQuery(t)
    \/ TxBump(t)
    \/ TxMirror(t)
    \/ TxCommit(t)
    \/ TxClose(t)
    \/ TxStoreError(t)
    \/ TxRelease(t)
    \/ TxObserve(t)

SpecTx == InitEngineTx /\ [][NextTx]_vars

\* Scheduling: a task inside the call keeps running until it has left the with
\* block, and a task waiting for the lock gets it if the lock is free again
\* and again.  Nothing obliges a task to call, to read, or a store call to fail.
FairTx ==
  \A t \in Tasks :
    /\ SF_vars(TxAcquire(t))
    /\ WF_vars(TxQuery(t) \/ TxBump(t) \/ TxMirror(t) \/ TxCommit(t) \/ TxClose(t)
                 \/ TxRelease(t))

SpecTxFair == InitEngineTx /\ [][NextTx]_vars /\ FairTx

\* -------------------------------------------------------------- the cache
\* The calls the handlers and the filters make on the module's usercache.

CacheCall(U, call) ==
  /\ users' = U
  /\ seen' = call
  /\ UNCHANGED <<subs, heap, keywords, last, txvars, frame, docvars>>

add_user ==
  \E user_id \in Ids, permission \in Permissions, last_step \in StepTexts :
    CacheCall(AddUser(users, user_id, permission, last_step),
              Seen("add_user", user_id, permission, last_step, NotGivenLikes, NotGivenLikes,
                   user_id \in DOMAIN users, FALSE, NoUser, "none"))

update_user_permission ==
  \E user_id \in Ids, permission \in Permissions :
    CacheCall(UpdateUserPermission(users, user_id, permission),
              Seen("update_user_permission", user_id, permission, <<>>, NotGivenLikes,
                   NotGivenLikes, user_id \in DOMAIN users, FALSE, NoUser, "none"))

update_user_step ==
  \E user_id \in Ids, last_step \in StepTexts :
    CacheCall(UpdateUserStep(users, user_id, last_step),
              Seen("update_user_step", user_id, Ordinal(0), last_step, NotGivenLikes,
                   NotGivenLikes, user_id \in DOMAIN users, FALSE, NoUser, "none"))

remove_user ==
  \E user_id \in Ids :
    LET rem == RemoveUser(users, user_id) IN
    CacheCall(rem.users,
              Seen("remove_user", user_id, Ordinal(0), <<>>, NotGivenLikes, NotGivenLikes,
                   user_id \in DOMAIN users, FALSE, rem.ret, rem.err))

match_step ==
  \E user_id \in Ids, step \in StepQueries :
    CacheCall(users,
              Seen("match_step", user_id, Ordinal(0), step, NotGivenLikes, NotGivenLikes,
                   user_id \in DOMAIN users, MatchStep(users, user_id, step), NoUser, "none"))

has_permission ==
  \E user_id \in Ids, min \in PermBounds, max \in PermBounds :
    LET has == HasPermission(users, user_id, DefaultMin(min), DefaultMax(max)) IN
    CacheCall(users,
              Seen("has_permission", user_id, Ordinal(0), <<>>, min, max,
                   user_id \in DOMAIN users, has.ret, NoUser, has.err))

\* A message from from_user meets the filter access_level(min, max).
access_level ==
  \E from_user \in Ids, min \in PermBounds, max \in PermBounds :
    LET has == AccessLevel(users, DefaultMin(min), DefaultMax(max), from_user) IN
    CacheCall(users,
              Seen("access_level", from_user, Ordinal(0), <<>>, min, max,
                   from_user \in DOMAIN users, has.ret, NoUser, has.err))

\* A message from from_user meets the filter user_step(step).
user_step ==
  \E from_user \in Ids, step \in StepQueries :
    CacheCall(users,
              Seen("user_step", from_user, Ordinal(0), step, NotGivenLikes, NotGivenLikes,
                   from_user \in DOMAIN users, UserStep(users, step, from_user), NoUser, "none"))

NextCache ==
  \/ add_user
  \/ update_user_permission
  \/ update_user_step
  \/ remove_user
  \/ match_step
  \/ has_permission
  \/ access_level
  \/ user_step

SpecCache == Init /\ [][NextCache]_vars

\* ------------------------------------------------- the engine under tasks
\* The engine's methods called by concurrent tasks, which take no lock: a task
\* runs a method one statement (one turn of a loop) at a step, and any task
\* may run between two steps of another.  A search is run through between two
\* steps of the calls in progress.

\* The calls the tasks make: update_record with a new text, remove_record and
\* increase_likes, all on submission 1.
MutatorCall(op, id, text, likes) == [op |-> op, id |-> id, text |-> text, likes |-> likes]

ConcCalls ==
  {MutatorCall("update_record", 1, Given(WordKaf), NotGivenLikes),
   MutatorCall("remove_record", 1, NotGivenText, NotGivenLikes),
   MutatorCall("increase_likes", 1, NotGivenText, NotGivenLikes)}

ConcQueries == {WordKaf}

\* The objects the engine or a task's local variable refers to.
Held(E, F) == Referenced(E) \cup {F[t].rec : t \in Tasks}

\* The step's effect on the engine and on the task's frame and place; objects
\* nothing refers to any more are reclaimed.
Step(t, E, f, label) ==
  LET F == [frame EXCEPT ![t] = f] IN
  /\ Install([E EXCEPT !.heap = [r \in Refs |-> IF r \in Held(E, F) THEN E.heap[r] ELSE NoRecord]])
  /\ frame' = F
  /\ Goto(t, label)
  /\ UNCHANGED <<last, arg, lock, db, pending, calls, obs, cachevars, docvars>>

\* The call returns or raises: its locals are gone.
Left(f) == [NoFrame EXCEPT !.hist = f.hist]

\* Where remove_record's loop leads: back to the caller, which is update_record
\* or the task.
AfterRetract(f) == IF f.op = "update_record" THEN "index" ELSE "idle"

\* A task calls one of the methods.
ConcCall(t) ==
  \E c \in ConcCalls :
    /\ pc[t] = "idle"
    /\ calls[t] < MaxCalls
    /\ calls' = [calls EXCEPT ![t] = @ + 1]
    /\ frame' = [frame EXCEPT ![t] = [op |-> c.op, id |-> c.id, text |-> c.text,
                                      likes |-> c.likes, rec |-> 0, words |-> <<>>, val |-> 0,
                                      pre |-> E0, hist |-> Append(@.hist, c)]]
    /\ Goto(t, IF c.op = "increase_likes" THEN "load" ELSE "pop")
    /\ UNCHANGED <<subs, heap, keywords, last, arg, lock, db, pending, obs, cachevars, docvars>>

\* remove_record: record = self.subs.pop(id); search_text = record.search_text
ConcPop(t) ==
  LET f == frame[t] IN
  /\ pc[t] = "pop"
  /\ IF f.id \notin DOMAIN subs
     THEN Step(t, E0, Left(f), "idle")
     ELSE LET r == subs[f.id]
              words == Split(heap[r].search_text)
          IN Step(t, Engine(Without(subs, f.id), heap, keywords),
                  [f EXCEPT !.rec = r, !.words = words],
                  IF words = <<>> THEN AfterRetract(f) ELSE "retract")

\* remove_record: one turn of the loop over the record's words.
ConcRetract(t) ==
  LET f == frame[t]
      word == Head(f.words)
      more == Tail(f.words)
      to == IF more = <<>> THEN AfterRetract(f) ELSE "retract"
      g == IF to = "idle" THEN Left(f) ELSE [f EXCEPT !.words = more]
  IN
  /\ pc[t] = "retract"
  /\ IF word \notin DOMAIN keywords
     THEN Step(t, E0, g, to)
     ELSE IF f.rec \notin keywords[word]
          THEN Step(t, E0, Left(f), "idle")
          ELSE Step(t, Engine(subs, heap, Prune([keywords EXCEPT ![word] = @ \ {f.rec}], word)),
                    g, to)

\* update_record: the three assignments to the removed record, then
\* index_record as far as self.subs[id] = record.
ConcIndex(t) ==
  LET f == frame[t]
      merged == MergeRecord(heap[f.rec], DefaultText(f.text), NoneText, DefaultLikes(f.likes))
      r == NewRef(E0)
      text == CleanText(merged.search_text)
      words == Split(text)
  IN
  /\ pc[t] = "index"
  /\ FreeRefs(E0) # {}
  /\ Step(t, Engine((merged.id :> r) @@ subs,
                    [heap EXCEPT ![f.rec] = merged,
                                 ![r] = Record(merged.id, text, Strip(merged.type), merged.likes)],
                    keywords),
          IF words = <<>> THEN Left(f) ELSE [f EXCEPT !.rec = r, !.words = words],
          IF words = <<>> THEN "idle" ELSE "insert")

\* index_record: one turn of the loop over the text's words.
ConcInsert(t) ==
  LET f == frame[t]
      more == Tail(f.words)
  IN
  /\ pc[t] = "insert"
  /\ Step(t, Engine(subs, heap, AddWords(keywords, <<Head(f.words)>>, f.rec)),
          IF more = <<>> THEN Left(f) ELSE [f EXCEPT !.words = more],
          IF more = <<>> THEN "idle" ELSE "insert")

\* increase_likes: record = self.subs[id], and the read of record.likes.
ConcLoad(t) ==
  LET f == frame[t] IN
  /\ pc[t] = "load"
  /\ IF f.id \notin DOMAIN subs
     THEN Step(t, E0, Left(f), "idle")
     ELSE Step(t, E0, [f EXCEPT !.rec = subs[f.id], !.val = heap[subs[f.id]].likes], "store")

\* increase_likes: the write of record.likes.
ConcStore(t) ==
  LET f == frame[t] IN
  /\ pc[t] = "store"
  /\ Step(t, Engine(subs, [heap EXCEPT ![f.rec].likes = f.val + 1], keywords), Left(f), "idle")

\* Submission 1 is indexed with two words and no likes.
InitEngineConc ==
  LET E == IndexRecord(EmptyEngine, 1, Join(<<WordYeh, WordKaf>>), <<"D">>, 0) IN
  /\ subs = E.subs
  /\ heap = E.heap
  /\ keywords = E.keywords
  /\ last = Call("init", 0, NotGivenText, NotGivenText, NotGivenLikes, FALSE, "none", <<>>)
  /\ InitTx
  /\ InitCache
  /\ InitFrame
  /\ InitDoc

NextConc ==
  \/ \E t \in Tasks :
       \/ ConcCall(t)
       \/ ConcPop(t)
       \/ ConcRetract(t)
       \/ ConcIndex(t)
       \/ ConcInsert(t)
       \/ ConcLoad(t)
       \/ ConcStore(t)
  \/ search(ConcQueries)

SpecConc == InitEngineConc /\ [][NextConc]_vars

\* ---------------------------------------------------------- the normalizer
\* __clean_text on its own: a text is drawn, and the normalizer is applied.

\* Every character alts names, a letter it does not, and the blank.
NormChars ==
  {alts[i][1] : i \in 1..Len(alts)} \cup {alts[i][2] : i \in 1..Len(alts)} \cup {"D", SP}

NormTexts == UNION {[1..n -> NormChars] : n \in 0..MaxLen}

InitNorm ==
  /\ subs = EmptyEngine.subs
  /\ heap = EmptyEngine.heap
  /\ keywords = EmptyEngine.keywords
  /\ \E text \in NormTexts :
       last = Call("text", 0, Given(text), NotGivenText, NotGivenLikes, FALSE, "none", <<>>)
  /\ InitTx
  /\ InitCache
  /\ InitFrame
  /\ InitDoc

clean_text ==
  /\ last.op = "text"
  /\ last' = Call("clean_text", 0, last.text, NotGivenText, NotGivenLikes, FALSE, "none",
                  CleanText(last.text.val))
  /\ UNCHANGED <<subs, heap, keywords, txvars, cachevars, frame, docvars>>

NextNorm == clean_text

SpecNorm == InitNorm /\ [][NextNorm]_vars

\* ---------------------------------------------------------- the document
\* A Document is constructed, its search text is written, users confirm it.

new_document ==
  /\ ~doc.exists
  /\ \E file_type \in DocType, course, professor, writer, faculty, university \in FieldTexts,
        semester_year \in Years :
       doc' = Document(FALSE, university, faculty, file_type, course, professor, writer,
                       semester_year)
  /\ did' = DocCall("Document", NoDbUser, "none")
  /\ UNCHANGED <<subs, heap, keywords, last, txvars, cachevars, frame>>

update_search_text ==
  /\ doc.exists
  /\ doc' = UpdateSearchText(doc)
  /\ did' = DocCall("update_search_text", NoDbUser, "none")
  /\ UNCHANGED <<subs, heap, keywords, last, txvars, cachevars, frame>>

confirm ==
  /\ doc.exists
  /\ \E user \in DbUsers \cup {NoDbUser} :
       LET c == Confirm(doc, user) IN
         /\ doc' = c.doc
         /\ did' = DocCall("confirm", user, c.err)
  /\ UNCHANGED <<subs, heap, keywords, last, txvars, cachevars, frame>>

NextDoc == new_document \/ update_search_text \/ confirm

SpecDoc == Init /\ [][NextDoc]_vars

\* ------------------------------------------------------------------ claims

\* The tokens of a text already normalized, the tokens of a query, the Record
\* objects subs holds, and the elements of a result.
TokensOf(text) == {Split(text)[i] : i \in 1..Len(Split(text))}
QueryTokens(q) == TokensOf(CleanText(q))
Stored == {subs[i] : i \in DOMAIN subs}
Elements(seq) == {seq[i] : i \in 1..Len(seq)}
AllTokens == DOMAIN keywords \cup UNION {TokensOf(heap[r].search_text) : r \in Refs}

\* C1: a record is a member of keywords[t] if and only if it is the record
\* subs stores under its id and t is a token of its search_text.
C1_KeywordsMatchSubs ==
  \A t \in AllTokens, r \in Refs :
    (t \in DOMAIN keywords /\ r \in keywords[t])
      <=> (r \in Stored /\ t \in TokensOf(heap[r].search_text))

\* C2: a search with at least one token returns exactly the stored records
\* whose search_text contains every token of the query.
C2_SearchIsConjunction ==
  (last.op = "search" /\ QueryTokens(last.text.val) # {})
    => Elements(last.ret) =
         {r \in Stored : QueryTokens(last.text.val) \subseteq TokensOf(heap[r].search_text)}

\* C3: a search whose query has no token returns the empty sequence.
C3_NoTokenNoResult ==
  (last.op = "search" /\ QueryTokens(last.text.val) = {}) => last.ret = <<>>

\* C3's case: a query without tokens was searched in an index that holds records.
C3_Witness ==
  /\ last.op = "search"
  /\ QueryTokens(last.text.val) = {}
  /\ Stored # {}
  /\ DOMAIN keywords # {}

\* C4: after remove_record(id) on an indexed id, id is not in subs, no token set
\* holds the removed record, and no token that only this record had is a key.
C4_RemoveRetracts ==
  [][(last'.op = "remove_record" /\ last'.id \in DOMAIN subs)
       => LET r == subs[last'.id] IN
          /\ last'.id \notin DOMAIN subs'
          /\ \A t \in DOMAIN keywords' : r \notin keywords'[t]
          /\ \A t \in DOMAIN keywords : keywords[t] = {r} => t \notin DOMAIN keywords']_vars

\* C5: index_record on an id that is indexed leaves the old record in no token
\* set, so no search returns it.
C5_ReindexRetracts ==
  [][(last'.op = "index_record" /\ last'.id \in DOMAIN subs)
       => \A t \in DOMAIN keywords' : subs[last'.id] \notin keywords'[t]]_vars

\* What the claim merges: the value given, or else the record's old value.
MergedField(a, old) == IF a.given THEN a.val ELSE old

\* remove_record(id) followed by index_record(id, text, type, likes).
RemoveThenIndex(E, id, text, type, likes) ==
  LET rem == RemoveRecord(E, id) IN
  IF rem.err # "none" THEN rem.E ELSE IndexRecord(rem.E, id, text, type, likes)

\* C6: update_record on an indexed id leaves subs and keywords as remove_record
\* followed by index_record of the merged fields does, a merged field being the
\* value given, or the old value when none was given.
C6_UpdateIsRemoveThenIndex ==
  [][(last'.op = "update_record" /\ last'.id \in DOMAIN subs)
       => LET old == heap[subs[last'.id]] IN
          Engine(subs', heap', keywords')
            = RemoveThenIndex(E0, last'.id,
                              MergedField(last'.text, old.search_text),
                              MergedField(last'.type, old.type),
                              MergedField(last'.likes, old.likes))]_vars

\* C7: update_record, remove_record, increase_likes and decrease_likes on an id
\* that is not in subs raise KeyError and leave subs and keywords as they were.
C7_NotFoundRaises ==
  [][(/\ last'.op \in {"update_record", "remove_record", "increase_likes", "decrease_likes"}
      /\ last'.id \notin DOMAIN subs)
       => /\ last'.err = "KeyError"
          /\ subs' = subs
          /\ keywords' = keywords
          /\ heap' = heap]_vars

\* C7's case: increase_likes on an id that is not indexed, beside a record that is.
C7_Witness ==
  /\ last.op = "increase_likes"
  /\ ~last.existed
  /\ last.err = "KeyError"
  /\ Stored # {}

\* C8: the records a search returns are in descending order of their likes.
C8_SortedByLikes ==
  last.op = "search"
    => \A i \in 1..(Len(last.ret) - 1) :
         heap[last.ret[i]].likes >= heap[last.ret[i + 1]].likes

\* C8's case: a search returned two records whose likes differ, the larger one
\* above zero and the smaller one below.
C8_Witness ==
  /\ last.op = "search"
  /\ Len(last.ret) = 2
  /\ heap[last.ret[1]].likes > 0
  /\ heap[last.ret[2]].likes < 0

\* C9: increase_likes / decrease_likes on an indexed id add 1 to / take 1 from
\* that record's likes, whatever they are, and change nothing else.
C9_LikesStep ==
  [][(last'.op \in {"increase_likes", "decrease_likes"} /\ last'.id \in DOMAIN subs)
       => /\ last'.err = "none"
          /\ subs' = subs
          /\ keywords' = keywords
          /\ heap' = [heap EXCEPT ![subs[last'.id]].likes =
                        @ + (IF last'.op = "increase_likes" THEN 1 ELSE -1)]]_vars

\* C9's case: decrease_likes has taken a record's likes from zero downwards as
\* far as the model follows them.
C9_Witness ==
  /\ last.op = "decrease_likes"
  /\ last.existed
  /\ heap[subs[last.id]].likes = -MaxLikes

\* C10: whatever a task outside the call reads, a submission's committed
\* search_times and its score in the engine have been incremented by the same
\* calls (both start at zero).
C10_CounterMirrorsScore == obs.id # 0 => obs.times = obs.score

\* The ordinal the permission model gives a name: Ordinary 1, Editor 2, Admin 3.
OrdinalOf(name) ==
  CASE name = "Ordinary" -> 1 [] name = "Editor" -> 2 [] name = "Admin" -> 3 [] OTHER -> 0

\* C13: every cached user's permission is stored as a number among 1, 2, 3, and
\* a permission passed to add_user or update_user_permission by name is stored
\* as that name's ordinal.
C13_PermissionIsOrdinal ==
  /\ \A id \in DOMAIN users :
       users[id].permission.kind = "ord" /\ users[id].permission.ord \in {1, 2, 3}
  /\ (/\ seen.op \in {"add_user", "update_user_permission"}
      /\ seen.permission.kind = "name"
      /\ seen.id \in DOMAIN users)
       => users[seen.id].permission = Ordinal(OrdinalOf(seen.permission.name))

\* C13's case: a user cached as Ordinary was made Admin by name.
C13_Witness ==
  /\ seen.op = "update_user_permission"
  /\ seen.existed
  /\ seen.permission = Name("Admin")
  /\ users[seen.id].permission = Ordinal(3)

\* C14: has_permission(id, min, max), and the access_level(min, max) filter for
\* a sender id, give true exactly when id is cached and min <= permission <= max.
C14_HasPermissionInclusive ==
  (seen.op \in {"has_permission", "access_level"} /\ seen.min.given /\ seen.max.given)
    => /\ seen.err = "none"
       /\ seen.ret <=> /\ seen.id \in DOMAIN users
                       /\ seen.min.val <= users[seen.id].permission.ord
                       /\ users[seen.id].permission.ord <= seen.max.val

\* C14's case: a message from an Editor passed the filter access_level(2, 2),
\* both of whose bounds are the Editor's ordinal.
C14_Witness ==
  /\ seen.op = "access_level"
  /\ seen.min = Given(2)
  /\ seen.max = Given(2)
  /\ seen.id \in DOMAIN users
  /\ users[seen.id].permission = Ordinal(2)
  /\ seen.ret

\* C15: has_permission(id) with neither bound given is true exactly when id is
\* cached.
C15_DefaultAdmitsRegistered ==
  (seen.op = "has_permission" /\ ~seen.min.given /\ ~seen.max.given)
    => /\ seen.err = "none"
       /\ seen.ret <=> seen.id \in DOMAIN users

\* C15's case: has_permission without bounds admitted a cached Admin.
C15_Witness ==
  /\ seen.op = "has_permission"
  /\ ~seen.min.given
  /\ ~seen.max.given
  /\ seen.id \in DOMAIN users
  /\ users[seen.id].permission = Ordinal(3)
  /\ seen.ret

\* C16: update_user_permission and update_user_step on an id that is not
\* cached raise nothing and leave the cache as it was.
C16_UnknownUpdateIsNoOp ==
  [][(/\ seen'.op \in {"update_user_permission", "update_user_step"}
      /\ seen'.id \notin DOMAIN users)
       => seen'.err = "none" /\ users' = users]_vars

\* C16's case: update_user_step on an id that is not cached, beside a user
\* that is.
C16_Witness ==
  /\ seen.op = "update_user_step"
  /\ ~seen.existed
  /\ seen.id \notin DOMAIN users
  /\ DOMAIN users # {}

\* C17: remove_user raises nothing; on a cached id it returns that user's
\* record and removes the entry, so that has_permission and match_step are
\* false for the id; on any other id it returns None and changes nothing.
C17_RemoveUserTotal ==
  [][seen'.op = "remove_user"
       => /\ seen'.err = "none"
          /\ IF seen'.id \in DOMAIN users
             THEN /\ seen'.user = users[seen'.id]
                  /\ users' = Without(users, seen'.id)
                  /\ \A min, max \in 1..3 : ~HasPermission(users', seen'.id, min, max).ret
                  /\ \A step \in StepQueries \cup StepTexts : ~MatchStep(users', seen'.id, step)
             ELSE seen'.user = NoUser /\ users' = users]_vars

\* C17's case: remove_user returned the record of a cached Editor at step
\* "st", and another user stayed cached.
C17_Witness ==
  /\ seen.op = "remove_user"
  /\ seen.existed
  /\ seen.user.permission = Ordinal(2)
  /\ seen.user.last_step = <<"s", "t">>
  /\ DOMAIN users # {}

\* str.upper(), for the letters lower_of names.
Upper(text) ==
  [i \in 1..Len(text) |->
     IF \E c \in DOMAIN lower_of : lower_of[c] = text[i]
     THEN CHOOSE c \in DOMAIN lower_of : lower_of[c] = text[i]
     ELSE text[i]]

\* Texts that differ from a step only in letter case or surrounding blanks.
Variants(step) ==
  {step, Upper(step), Lower(step), Padded(step), <<SP>> \o Upper(step), Lower(step) \o <<SP>>}

\* C18: match_step and the user_step filter are true exactly when the id is
\* cached and the step, trimmed and lower-cased, is the stored last_step; after
\* add_user or update_user_step of a cached id every variant of the step
\* matches; every stored last_step is trimmed and lower-case.
C18_MatchStepNormalizes ==
  /\ seen.op \in {"match_step", "user_step"}
       => seen.ret <=> /\ seen.id \in DOMAIN users
                       /\ users[seen.id].last_step = Strip(Lower(seen.step))
  /\ (seen.op = "add_user" \/ (seen.op = "update_user_step" /\ seen.existed))
       => \A step \in Variants(seen.step) : MatchStep(users, seen.id, step)
  /\ \A id \in DOMAIN users :
       Strip(users[id].last_step) = users[id].last_step
         /\ Lower(users[id].last_step) = users[id].last_step

\* C18's case: a step stored from "sT" matched the query "St ".
C18_Witness ==
  /\ seen.op = "user_step"
  /\ seen.step = <<"S", "t", SP>>
  /\ seen.id \in DOMAIN users
  /\ users[seen.id].last_step = <<"s", "t">>
  /\ seen.ret

\* The canonical form of a character: each look-alike's, or the character.
Folded(c) ==
  CASE c = "ARABIC_YEH" -> "FARSI_YEH"
    [] c = "ARABIC_KAF" -> "KEHEH"
    [] c = "TEH_MARBUTA" -> "HEH"
    [] c = "ALEF_HAMZA_ABOVE" -> "ALEF"
    [] c = "ALEF_HAMZA_BELOW" -> "ALEF"
    [] c = "YEH_HAMZA_ABOVE" -> "FARSI_YEH"
    [] OTHER -> c

\* A text from its first character that is not whitespace to its last.
Trimmed(text) ==
  LET inner == {i \in 1..Len(text) : text[i] \notin Whitespace} IN
  IF inner = {} THEN <<>>
  ELSE SubSeq(text, CHOOSE i \in inner : \A j \in inner : i <= j,
                    CHOOSE i \in inner : \A j \in inner : i >= j)

\* C19: the normalizer gives the text with every look-alike replaced by its
\* canonical form and then trimmed, and normalizing its result changes nothing.
C19_NormalizeFoldsAndIsIdempotent ==
  last.op = "clean_text"
    => /\ last.ret = Trimmed([i \in 1..Len(last.text.val) |-> Folded(last.text.val[i])])
       /\ CleanText(last.ret) = last.ret

\* C19's case: a text with a look-alike between blanks was normalized.
C19_Witness ==
  /\ last.op = "clean_text"
  /\ last.text.val = <<SP, "ARABIC_KAF", SP>>
  /\ last.ret = <<"KEHEH">>

\* C20: every key of keywords maps to a set that is not empty.
C20_NoEmptyTokenSet == \A t \in DOMAIN keywords : keywords[t] # {}

\* C20's case: remove_record has retracted a record while another record stays
\* indexed, and the only token left is the one the other record has.
C20_Witness ==
  /\ last.op = "remove_record"
  /\ last.existed
  /\ last.err = "none"
  /\ Cardinality(Stored) = 1
  /\ DOMAIN keywords = {<<"FARSI_YEH">>}

\* A call run as one step on an engine: the engine afterwards.
AtomicCall(E, c) ==
  CASE c.op = "update_record" ->
         UpdateRecord(E, c.id, DefaultText(c.text), NoneText, DefaultLikes(c.likes)).E
    [] c.op = "remove_record" -> RemoveRecord(E, c.id).E
    [] c.op = "increase_likes" -> IncreaseLikes(E, c.id).E

\* The records a result lists, by their fields, and every result a search of
\* an engine may return.
Values(h, ret) == [i \in 1..Len(ret) |-> h[ret[i]]]
SearchValues(E, q) ==
  {Values(E.heap, Sorted(E.heap, order)) : order \in Orders(SearchSet(E, q).result)}

\* C11: a search made while one task is inside update_record or remove_record
\* (no other task having called a mutating method) returns what a search of the
\* engine as it was before that call, or as it is after the whole call, returns.
C11_SearchSeesWholeMutation ==
  [][(last' # last /\ last'.op = "search")
       => \A t \in Tasks :
            (/\ pc[t] \in {"pop", "retract", "index", "insert"}
             /\ \A u \in Tasks \ {t} : frame[u].hist = <<>>)
              => Values(heap, last'.ret)
                   \in SearchValues(frame[t].pre, last'.text.val)
                         \cup SearchValues(AtomicCall(frame[t].pre, frame[t]), last'.text.val)]_vars

\* An engine without its object identities: each id's record, and each
\* token's records, by their fields.
View(E) ==
  [subs |-> [i \in DOMAIN E.subs |-> E.heap[E.subs[i]]],
   keywords |-> [w \in DOMAIN E.keywords |-> {E.heap[r] : r \in E.keywords[w]}]]

\* The orders in which the calls of two tasks can follow one another, each
\* task's calls in its own order.
RECURSIVE Merges(_, _)
Merges(a, b) ==
  IF a = <<>> THEN {b}
  ELSE IF b = <<>> THEN {a}
  ELSE {<<Head(a)>> \o m : m \in Merges(Tail(a), b)}
         \cup {<<Head(b)>> \o m : m \in Merges(a, Tail(b))}

\* The engine after the calls of a sequence, one whole call after another.
RECURSIVE Serial(_, _)
Serial(E, cs) == IF cs = <<>> THEN E ELSE Serial(AtomicCall(E, Head(cs)), Tail(cs))

\* The engine SpecConc starts from.
StartConc == IndexRecord(EmptyEngine, 1, Join(<<WordYeh, WordKaf>>), <<"D">>, 0)

\* C12: once every task is outside its calls, the engine is as some serial
\* order of the calls made leaves it.
C12_MutatorsSerialize ==
  (\A t \in Tasks : pc[t] = "idle")
    => \E order \in Merges(frame[1].hist, frame[2].hist) :
         View(E0) = View(Serial(StartConc, order))

\* C21: a search returns the one sequence its query and the records held
\* determine: no other order of the same records could have been returned.
C21_SearchDeterministic ==
  last.op = "search" => SearchValues(E0, last.text.val) = {Values(heap, last.ret)}

\* C22: after update_record on an indexed id the record holds, for each of
\* search_text, type and likes, the value given (the text normalized, the type
\* trimmed, the likes any integer) or, where none was given, the old value.
C22_UpdateMergesFields ==
  [][(last'.op = "update_record" /\ last'.id \in DOMAIN subs /\ last'.err = "none")
       => LET old == heap[subs[last'.id]]
              new == heap'[subs'[last'.id]]
          IN /\ new.search_text
                  = IF last'.text.given THEN CleanText(last'.text.val) ELSE old.search_text
             /\ new.type = IF last'.type.given THEN Strip(last'.type.val) ELSE old.type
             /\ new.likes = IF last'.likes.given THEN last'.likes.val ELSE old.likes]_vars

\* A text with each canonical letter replaced by one of its look-alikes.
Unfolded(c) ==
  CASE c = "FARSI_YEH" -> "YEH_HAMZA_ABOVE"
    [] c = "KEHEH" -> "ARABIC_KAF"
    [] c = "HEH" -> "TEH_MARBUTA"
    [] c = "ALEF" -> "ALEF_HAMZA_BELOW"
    [] OTHER -> c
Unfold(text) == [i \in 1..Len(text) |-> Unfolded(text[i])]

\* Queries that normalize to what a token t normalizes to.
TokenQueries(t) ==
  {t, Padded(t), CleanText(t), Padded(CleanText(t)), Unfold(CleanText(t)),
   Padded(Unfold(CleanText(t)))}

\* C25: once index_record or update_record has indexed a text, a search for
\* any spelling of any of its tokens finds that record; and a search for one
\* token returns every stored record whose text has the token as normalized.
C25_SameNormalization ==
  /\ (/\ last.op \in {"index_record", "update_record"}
      /\ last.text.given
      /\ last.err = "none"
      /\ last.id \in DOMAIN subs)
       => \A i \in 1..Len(Split(last.text.val)) :
            \A q \in TokenQueries(Split(last.text.val)[i]) :
              subs[last.id] \in SearchSet(E0, q).result
  /\ (last.op = "search" /\ Len(Split(CleanText(last.text.val))) = 1)
       => \A r \in Stored :
            QueryTokens(last.text.val) \subseteq TokensOf(heap[r].search_text)
              => r \in Elements(last.ret)

\* C25's case: a query of the Arabic yeh between blanks returned a stored
\* record whose text holds the Farsi yeh.
C25_Witness ==
  /\ last.op = "search"
  /\ last.text.val = Padded(WordYeh)
  /\ \E r \in Elements(last.ret) \cap Stored : <<"FARSI_YEH">> \in TokensOf(heap[r].search_text)

\* C26: a search leaves subs, every record and every token set as they were.
C26_SearchReadOnly ==
  [][last'.op = "search" => subs' = subs /\ keywords' = keywords /\ heap' = heap]_vars

\* C26's case: a search for one token returned both records of that token's
\* set.
C26_Witness ==
  /\ last.op = "search"
  /\ last.text.val = WordKaf
  /\ Len(last.ret) = 2

\* C27: every record a search returns is the record subs stores under its id,
\* and no id occurs twice in a result.
C27_SearchReturnsStored ==
  last.op = "search"
    => /\ \A i \in 1..Len(last.ret) : last.ret[i] \in Stored
       /\ \A i, j \in 1..Len(last.ret) : i # j => heap[last.ret[i]].id # heap[last.ret[j]].id

\* C28: remove_record(id) right after index_record(id, ...) of an id that was
\* not indexed raises nothing and leaves subs and keywords as they were before
\* the index_record: without the id, and without the new record in any set.
C28_IndexRemoveRoundTrip ==
  [][(/\ last.op = "index_record"
      /\ ~last.existed
      /\ last'.op = "remove_record"
      /\ last'.id = last.id)
       => LET r == subs[last.id] IN
          /\ last'.err = "none"
          /\ subs' = Without(subs, last.id)
          /\ keywords' = [w \in {w \in DOMAIN keywords : keywords[w] # {r}} |-> keywords[w] \ {r}]]_vars

\* The ordinal of a permission as given, by name or by number.
GivenOrdinal(permission) ==
  IF permission.kind = "name" THEN OrdinalOf(permission.name) ELSE permission.ord

\* C30: update_user_permission keeps the user's last_step, update_user_step
\* keeps the user's permission, add_user sets both from its arguments, and
\* every mutation leaves every other user as it was.
C30_CacheFrame ==
  [][/\ (seen'.op = "update_user_permission" /\ seen'.id \in DOMAIN users)
          => users'[seen'.id].last_step = users[seen'.id].last_step
     /\ (seen'.op = "update_user_step" /\ seen'.id \in DOMAIN users)
          => users'[seen'.id].permission = users[seen'.id].permission
     /\ seen'.op = "add_user"
          => /\ users'[seen'.id].permission = Ordinal(GivenOrdinal(seen'.permission))
             /\ users'[seen'.id].last_step = Strip(Lower(seen'.step))
     /\ seen'.op \in {"add_user", "update_user_permission", "update_user_step", "remove_user"}
          => \A other \in Ids \ {seen'.id} :
               /\ other \in DOMAIN users' <=> other \in DOMAIN users
               /\ other \in DOMAIN users => users'[other] = users[other]]_vars

\* C30's case: add_user was called for an id already cached, beside another
\* cached user whose step is not empty.
C30_Witness ==
  /\ seen.op = "add_user"
  /\ seen.existed
  /\ \E other \in DOMAIN users \ {seen.id} : users[other].last_step # <<>>

\* The places of increase_search_times inside the with block.
Inside == {"query", "bump", "mirror", "commit", "close", "release"}

\* C29: a task that is outside increase_search_times never holds
\* SUBMISSION_INSERTION_LOCK, at most one task is inside the with block, and a
\* task waiting for the lock eventually holds it.
C29_LockAlwaysReleased ==
  /\ [](\A t \in Tasks : pc[t] = "idle" => lock # t)
  /\ [](Cardinality({t \in Tasks : pc[t] \in Inside}) <= 1)
  /\ \A t \in Tasks : (pc[t] = "acquire") ~> (lock = t)

\* C29's case: task 1 has left one call and waits for the lock again while
\* task 2 is inside the with block.
C29_Witness ==
  /\ pc[1] = "acquire"
  /\ calls[1] > 1
  /\ lock = 2
  /\ pc[2] \in Inside

\* C23: confirm called with None or with a user below Editor raises
\* RuntimeError and leaves the document, its admin, is_confirmed and
\* search_text included, as it was; and no confirm call makes an unconfirmed
\* document confirmed unless it was passed an Editor or an Admin.
C23_ConfirmNeedsEditor ==
  [][did'.op = "confirm"
       => /\ (did'.user = NoDbUser \/ did'.user.access_level = "Ordinary")
               => /\ did'.err = "RuntimeError"
                  /\ doc' = doc
          /\ (~doc.is_confirmed /\ doc'.is_confirmed)
               => /\ did'.user # NoDbUser
                  /\ did'.user.access_level \in {"Editor", "Admin"}]_vars

\* C23's case: an Ordinary user's confirm was refused on a document whose
\* search text had been written and which is still unconfirmed and without admin.
C23_Witness ==
  /\ did.op = "confirm"
  /\ did.err = "RuntimeError"
  /\ did.user.access_level = "Ordinary"
  /\ doc.search_text.given
  /\ ~doc.is_confirmed
  /\ doc.admin = NoDbUser

\* The fields of a document in the order of its search text: label, value as
\* text, and whether the field is set.
Parts(d) ==
  << [label |-> LabelCourse, value |-> d.course, set |-> d.course # Unset],
     [label |-> LabelProfessor, value |-> d.professor, set |-> d.professor # Unset],
     [label |-> LabelWriter, value |-> d.writer, set |-> d.writer # Unset],
     [label |-> LabelYear, value |-> Str(d.semester_year), set |-> d.semester_year # 0],
     [label |-> LabelFaculty, value |-> d.faculty, set |-> d.faculty # Unset],
     [label |-> LabelUniversity, value |-> d.university, set |-> d.university # Unset] >>

\* The parts from the k-th on, each set one written as blank, label, blank, value.
RECURSIVE PartsText(_, _)
PartsText(parts, k) ==
  IF k > Len(parts) THEN <<>>
  ELSE (IF parts[k].set THEN <<SP>> \o parts[k].label \o <<SP>> \o parts[k].value ELSE <<>>)
       \o PartsText(parts, k + 1)

\* C24: after update_search_text the document's search_text is the file type's
\* value followed by the labelled course, professor, writer, year, faculty and
\* university in this order, a part being present exactly when its field is
\* not the unset text (0 for the year); an unset field adds nothing.
C24_DocumentSearchText ==
  did.op = "update_search_text"
    => doc.search_text = Given(doc.file_type.value \o PartsText(Parts(doc), 1))

\* C24's case: update_search_text ran on a document with the course, the year
\* and the faculty set and the professor, the writer and the university unset.
C24_Witness ==
  /\ did.op = "update_search_text"
  /\ doc.course # Unset
  /\ doc.semester_year = 1402
  /\ doc.faculty # Unset
  /\ doc.professor = Unset
  /\ doc.writer = Unset
  /\ doc.university = Unset
  /\ doc.search_text.given

====
